---------------------------- MODULE Spec2Model ----------------------------
(***************************************************************************)
(* A model of the chunking and retrieval-scoring pipeline of the simple    *)
(* RAG system (simple_rag_system/chunker.py, query.py, ingest.py).         *)
(*                                                                         *)
(* Each operation is modelled with its own specification:                  *)
(*   SpecNaive   NaiveChunker.chunk        (the sliding-window loop)       *)
(*   SpecLayout  LayoutAwareChunker.chunk  (split, classify, merge sweep)  *)
(*   SpecQuery   RAGQueryEngine.query      (score, filter, truncate)       *)
(*   SpecIngest  DocumentIndexer.index_directory / index_file              *)
(*   SpecParser  parse_document_structure.py (headers, section hierarchy)  *)
(*   SpecMeta    MetadataExtractor.extract_from_content                    *)
(*   SpecExtract AbstractFirstChunker._extractive_abstract                 *)
(*   SpecAbstractFirst  AbstractFirstChunker.chunk                         *)
(* The variables of the operations a specification does not run stay at    *)
(* their idle values.                                                      *)
(***************************************************************************)
EXTENDS Integers, Sequences, FiniteSets, TLC

VARIABLES
    \* NaiveChunker.chunk
    naive_pc,        \* "loop" | "done"
    chunk_size,      \* self.chunk_size
    overlap,         \* self.overlap
    content,         \* the text handed to chunk(): a sequence of token pieces
    tokens,          \* self.encoding.encode(content)
    start,           \* the loop variable
    naive_chunks,    \* the list chunks
    \* LayoutAwareChunker.chunk
    layout_pc,       \* "idle" | "sections" | "merge" | "done"
    merge_small,     \* self.merge_small
    doc,             \* the markdown text: a sequence of lines
    sections,        \* _split_by_h2(content)
    sec_i,           \* position of the for loop over sections (1-based)
    chunks,          \* the list chunks before the merge pass
    merged,          \* the list merged of _merge_small_chunks
    merge_i,         \* the index i of _merge_small_chunks (0-based)
    result,          \* the value chunk() returns
    \* RAGQueryEngine.query
    query_pc,        \* "idle" | "call" | "loop" | "done" | "error"
    arg_top_k,       \* the caller's top_k (None when omitted)
    arg_min_score,   \* the caller's min_score (None when omitted)
    top_k,           \* top_k after line 66
    min_score,       \* min_score after line 67
    collection,      \* the index's ranking for this query: a sequence of distances
    n_results,       \* the n_results asked of the index
    results,         \* what the index returned
    res_i,           \* position of the for loop over results (0-based)
    formatted_results,
    \* DocumentIndexer.index_directory
    ingest_pc,       \* "idle" | "start" | "files" | "done" | "error"
    strategy,        \* the strategy argument (None when omitted)
    chunker,         \* the chunker get_chunker returned
    md_files,        \* the files found, in processing order
    file_i,          \* position of the for loop over md_files (1-based)
    total_chunks,
    docs_read,       \* positions of the files opened so far
    docs_chunked,    \* positions of the files handed to chunker.chunk
    index_ids,       \* the ids of the entries of the index collection, in order
    \* parse_document_structure.py
    parser_pc,       \* "idle" | "start" | "build" | "done"
    parse_lines,     \* content.split('\n')
    headers,         \* extract_headers(content)
    hier,            \* the list sections of build_section_hierarchy
    hdr_i,           \* the index i of its first loop (0-based)
    \* MetadataExtractor.extract_from_content
    meta_pc,         \* "idle" | "scan" | "done"
    meta_text,       \* content: a sequence of items
    scan_pos,        \* where re.finditer looks for the next match (1-based)
    metadata,        \* the dict metadata: key -> value
    \* AbstractFirstChunker._extractive_abstract
    ex_pc,           \* "idle" | "start" | "trim" | "done"
    ex_content,      \* content: a sequence of characters
    abstract_max_tokens,   \* self.abstract_max_tokens
    abstract,        \* the local abstract
    \* AbstractFirstChunker.chunk
    af_pc,           \* "idle" | "base" | "done"
    af_method,       \* config.ABSTRACT_GENERATION_METHOD
    af_chunks        \* the chunks returned, abstracts added

naive_vars  == <<naive_pc, chunk_size, overlap, content, tokens, start, naive_chunks>>
layout_vars == <<layout_pc, merge_small, doc, sections, sec_i, chunks, merged,
                 merge_i, result>>
query_vars  == <<query_pc, arg_top_k, arg_min_score, top_k, min_score, collection,
                 n_results, results, res_i, formatted_results>>
ingest_vars == <<ingest_pc, strategy, chunker, md_files, file_i, total_chunks,
                 docs_read, docs_chunked, index_ids>>
parser_vars == <<parser_pc, parse_lines, headers, hier, hdr_i>>
meta_vars   == <<meta_pc, meta_text, scan_pos, metadata>>
extract_vars == <<ex_pc, ex_content, abstract_max_tokens, abstract>>
af_vars     == <<af_pc, af_method, af_chunks>>
other_vars  == <<parser_vars, meta_vars, extract_vars, af_vars>>
rag_vars    == <<naive_vars, layout_vars, query_vars, ingest_vars>>
vars == <<naive_vars, layout_vars, query_vars, ingest_vars, other_vars>>

Min(a, b) == IF a <= b THEN a ELSE b
Max(a, b) == IF a >= b THEN a ELSE b

\* All sequences over S of length 0..n.
SeqUpTo(S, n) == UNION {[1..k -> S] : k \in 0..n}

(***************************************************************************)
(* Bounds of the model.                                                    *)
(***************************************************************************)
\* Longest enumerated document of the naive chunker, in tokens.
MaxTokens == 4
\* Largest enumerated window size of the naive chunker.
MaxWindow == 3

(***************************************************************************)
(* Configuration (config.py).                                              *)
(***************************************************************************)
NAIVE_CHUNK_SIZE == 512
NAIVE_OVERLAP == 50
LAYOUT_AWARE_MAX_TOKENS == 900
LAYOUT_AWARE_MIN_TOKENS == 200
DEFAULT_TOP_K == 3

(***************************************************************************)
(* The tokenizer (tiktoken, an external codec): a text is a sequence of    *)
(* token pieces, a token is the position of its piece in the vocabulary.   *)
(***************************************************************************)
Vocab == <<"a", "b", ".", "!", "?", " ">>

TokenId(piece) == CHOOSE id \in 1..Len(Vocab) : Vocab[id] = piece

Encode(text) == [i \in 1..Len(text) |-> TokenId(text[i])]

Decode(ids) == [i \in 1..Len(ids) |-> Vocab[ids[i]]]

\* Python's seq[lo:hi]: a negative bound counts from the end, and both
\* bounds are clipped to 0..len(seq).
PyBound(n, b) == IF b < 0 THEN Max(b + n, 0) ELSE Min(b, n)

PySlice(seq, lo, hi) ==
    LET l == PyBound(Len(seq), lo)
        h == PyBound(Len(seq), hi)
    IN  IF l < h THEN [i \in 1..(h - l) |-> seq[l + i]] ELSE <<>>

(***************************************************************************)
(* NaiveChunker.chunk                                                      *)
(***************************************************************************)
\* The loop stops being followed once this many chunks are emitted (a loop
\* that ends emits at most one chunk per token).
MaxChunks == MaxTokens + 2

\* The 1000-token document of the spec's example.
Doc1000 == [i \in 1..1000 |-> "a"]

\* Every configuration with 0 <= overlap < window size, up to MaxWindow.
NaiveConfigs == {c \in (1..MaxWindow) \X (0..MaxWindow) : c[2] < c[1]}

NaiveInit ==
    /\ \E c \in NaiveConfigs \cup {<<NAIVE_CHUNK_SIZE, NAIVE_OVERLAP>>} :
          /\ chunk_size = c[1]
          /\ overlap = c[2]
    /\ content \in SeqUpTo({"a", "b"}, MaxTokens) \cup {Doc1000}
    /\ (content = Doc1000) => (chunk_size = NAIVE_CHUNK_SIZE)
    /\ tokens = Encode(content)
    /\ start = 0
    /\ naive_chunks = <<>>
    /\ naive_pc = "loop"

NaiveIdle ==
    /\ naive_pc = "idle"
    /\ chunk_size = NAIVE_CHUNK_SIZE
    /\ overlap = NAIVE_OVERLAP
    /\ content = <<>>
    /\ tokens = <<>>
    /\ start = 0
    /\ naive_chunks = <<>>

\* start = end - self.overlap
NaiveAdvance(end) == end - overlap

\* One pass of the while loop (lines 215-235).
NaiveStep ==
    /\ naive_pc = "loop"
    /\ start < Len(tokens)
    /\ Len(naive_chunks) < MaxChunks
    /\ LET end == Min(start + chunk_size, Len(tokens))
           chunk_tokens == PySlice(tokens, start, end)
       IN  /\ naive_chunks' = Append(naive_chunks,
                  [content |-> Decode(chunk_tokens),
                   section_title |-> <<"Chunk", Len(naive_chunks) + 1>>,
                   heading_level |-> "none",
                   tokens |-> Len(chunk_tokens),
                   chunk_index |-> Len(naive_chunks),
                   start_token |-> start,
                   end_token |-> end])
           /\ start' = NaiveAdvance(end)
    /\ UNCHANGED <<naive_pc, chunk_size, overlap, content, tokens>>
    /\ UNCHANGED <<layout_vars, query_vars, ingest_vars, other_vars>>

\* The loop condition fails: return chunks (line 237).
NaiveReturn ==
    /\ naive_pc = "loop"
    /\ ~(start < Len(tokens))
    /\ naive_pc' = "done"
    /\ UNCHANGED <<chunk_size, overlap, content, tokens, start, naive_chunks>>
    /\ UNCHANGED <<layout_vars, query_vars, ingest_vars, other_vars>>

NaiveNext == NaiveStep \/ NaiveReturn

(***************************************************************************)
(* Markdown text for the layout-aware chunker.  A text is a sequence of    *)
(* lines; a line records the number of leading '#' characters of a         *)
(* heading line (0 for any other line), the heading's title, and the       *)
(* number of tokens the tokenizer finds in the line.  A blank line has no  *)
(* tokens; the line break that joins two lines is one token.  The metadata *)
(* mapping that chunk() copies into every chunk is left out: its keys are  *)
(* taken to be distinct from the chunk's own keys.                         *)
(***************************************************************************)
Heading(level, title) == [hashes |-> level, title |-> title, tok |-> 5]
Text(n) == [hashes |-> 0, title |-> "", tok |-> n]
Blank == Text(0)

IsBlank(line) == line.hashes = 0 /\ line.tok = 0

RECURSIVE SumTok(_)
SumTok(lines) ==
    IF lines = <<>> THEN 0 ELSE Head(lines).tok + SumTok(Tail(lines))

\* Chunker.count_tokens: len(self.encoding.encode(text)).
CountTokens(text) ==
    IF text = <<>> THEN 0 ELSE SumTok(text) + (Len(text) - 1)

\* content.split('\n'): the empty text splits into one empty line.
SplitLines(text) == IF text = <<>> THEN <<Blank>> ELSE text

RECURSIVE LStrip(_)
LStrip(lines) ==
    IF lines # <<>> /\ IsBlank(Head(lines)) THEN LStrip(Tail(lines)) ELSE lines

RECURSIVE RStrip(_)
RStrip(lines) ==
    IF lines # <<>> /\ IsBlank(lines[Len(lines)])
    THEN RStrip(SubSeq(lines, 1, Len(lines) - 1))
    ELSE lines

\* '\n'.join(lines).strip()
JoinStrip(lines) == RStrip(LStrip(lines))

\* re.match(r'^##\s+(.+)$', line), and r'^###\s+(.+)$' for level 3.
\* HeadingMatch taking the deeper headings as well ('^##+').
MutHeadingMatch(level, line) == line.hashes >= level /\ line.title # ""
HeadingMatch(level, line) == line.hashes = level /\ line.title # ""

\* The loop shared by _split_by_h2 and _split_by_h3: lines from position i on,
\* with the sections saved so far, the lines and the title of the current one.
RECURSIVE SplitLoop(_, _, _, _, _, _)
SplitLoop(level, lines, i, saved, current_section, current_title) ==
    IF i > Len(lines)
    THEN IF current_section # <<>>
         THEN Append(saved, [title |-> current_title,
                             content |-> JoinStrip(current_section)])
         ELSE saved
    ELSE IF HeadingMatch(level, lines[i])
         THEN SplitLoop(level, lines, i + 1,
                  IF current_section # <<>>
                  THEN Append(saved, [title |-> current_title,
                                      content |-> JoinStrip(current_section)])
                  ELSE saved,
                  <<lines[i]>>, <<lines[i].title>>)
         ELSE SplitLoop(level, lines, i + 1, saved,
                  Append(current_section, lines[i]), current_title)

\* LayoutAwareChunker._split_by_h2
SplitByH2(text) == SplitLoop(2, SplitLines(text), 1, <<>>, <<>>, <<"Introduction">>)

\* LayoutAwareChunker._split_by_h3
SplitByH3(text) == SplitLoop(3, SplitLines(text), 1, <<>>, <<>>, <<"Section">>)

(***************************************************************************)
(* LayoutAwareChunker.chunk                                                *)
(***************************************************************************)
\* Longest enumerated markdown document, in lines.
MaxLines == 4

\* The lines the enumerated documents are made of.  The text lines are sized
\* so that sections land on both sides of each threshold (49/50, 199/200,
\* 900/901 tokens).
LineAlphabet ==
    {Heading(1, "T"), Heading(2, "A"), Heading(2, "B"), Heading(3, "S"),
     Text(43), Text(193), Text(893), Blank}

\* The spec's example: # Title, ## A (400 tokens), ## B (50), ## C (300).
ExampleDoc ==
    <<Heading(1, "Title"),
      Heading(2, "A"), Text(394),
      Heading(2, "B"), Text(44),
      Heading(2, "C"), Text(294)>>

Docs == (SeqUpTo(LineAlphabet, MaxLines) \ {<<>>}) \cup {ExampleDoc}

LayoutInit ==
    /\ layout_pc = "start"
    /\ merge_small \in BOOLEAN
    /\ doc \in Docs
    /\ sections = <<>>
    /\ sec_i = 1
    /\ chunks = <<>>
    /\ merged = <<>>
    /\ merge_i = 0
    /\ result = <<>>

LayoutIdle ==
    /\ layout_pc = "idle"
    /\ merge_small = TRUE
    /\ doc = <<>>
    /\ sections = <<>>
    /\ sec_i = 1
    /\ chunks = <<>>
    /\ merged = <<>>
    /\ merge_i = 0
    /\ result = <<>>

\* IsNoise with the comparison off by one (<= 50).
MutIsNoise(token_count) == token_count <= 50

\* if token_count < 50: continue
IsNoise(token_count) == token_count < 50

\* TooLarge with twice the threshold.
MutTooLarge(token_count) == token_count > 2 * LAYOUT_AWARE_MAX_TOKENS
\* if token_count > self.max_tokens
TooLarge(token_count) == token_count > LAYOUT_AWARE_MAX_TOKENS

\* The chunk of a section that fits (lines 81-88); a chunk without the key
\* "merged" is one with merged = FALSE.
H2Chunk(section, token_count, index) ==
    [content |-> section.content,
     section_title |-> section.title,
     heading_level |-> "h2",
     tokens |-> token_count,
     chunk_index |-> index,
     merged |-> FALSE]

\* The chunk of one level-3 piece of a section that is too large (lines 71-79).
H3Chunk(section, subsection, index) ==
    [content |-> subsection.content,
     section_title |-> section.title \o <<"-">> \o subsection.title,
     heading_level |-> "h3",
     tokens |-> CountTokens(subsection.content),
     chunk_index |-> index,
     merged |-> FALSE]

\* The inner loop over subsections (lines 70-79), from position j on.
RECURSIVE AppendSubsections(_, _, _, _)
AppendSubsections(list, section, subsections, j) ==
    IF j > Len(subsections)
    THEN list
    ELSE AppendSubsections(
             Append(list, H3Chunk(section, subsections[j], Len(list))),
             section, subsections, j + 1)

\* sections = self._split_by_h2(content); chunks = [] (lines 57-58).
LayoutSplit ==
    /\ layout_pc = "start"
    /\ sections' = SplitByH2(doc)
    /\ chunks' = <<>>
    /\ sec_i' = 1
    /\ layout_pc' = "sections"
    /\ UNCHANGED <<merge_small, doc, merged, merge_i, result>>
    /\ UNCHANGED <<naive_vars, query_vars, ingest_vars, other_vars>>

\* One pass of the loop over sections (lines 60-88).
ChunkSection ==
    /\ layout_pc = "sections"
    /\ sec_i <= Len(sections)
    /\ LET section == sections[sec_i]
           token_count == CountTokens(section.content)
       IN  chunks' =
               IF IsNoise(token_count)
               THEN chunks
               ELSE IF TooLarge(token_count)
               THEN AppendSubsections(chunks, section,
                                      SplitByH3(section.content), 1)
               ELSE Append(chunks, H2Chunk(section, token_count, Len(chunks)))
    /\ sec_i' = sec_i + 1
    /\ UNCHANGED <<layout_pc, merge_small, doc, sections, merged, merge_i, result>>
    /\ UNCHANGED <<naive_vars, query_vars, ingest_vars, other_vars>>

\* The loop over sections is over and merging is on: enter
\* _merge_small_chunks (lines 91-92, 162-163).
MergeEnter ==
    /\ layout_pc = "sections"
    /\ sec_i > Len(sections)
    /\ merge_small
    /\ merged' = <<>>
    /\ merge_i' = 0
    /\ layout_pc' = "merge"
    /\ UNCHANGED <<merge_small, doc, sections, sec_i, chunks, result>>
    /\ UNCHANGED <<naive_vars, query_vars, ingest_vars, other_vars>>

\* The loop over sections is over and merging is off: return chunks (line 94).
LayoutReturn ==
    /\ layout_pc = "sections"
    /\ sec_i > Len(sections)
    /\ ~merge_small
    /\ result' = chunks
    /\ layout_pc' = "done"
    /\ UNCHANGED <<merge_small, doc, sections, sec_i, chunks, merged, merge_i>>
    /\ UNCHANGED <<naive_vars, query_vars, ingest_vars, other_vars>>

\* current["tokens"] < self.min_tokens
IsSmall(chunk) == chunk.tokens < LAYOUT_AWARE_MIN_TOKENS

\* MergedContent without the content of the next chunk.
MutMergedContent(current, next_chunk) ==
    current.content \o <<Blank>>
\* merged_content = current["content"] + "\n\n" + next_chunk["content"]
MergedContent(current, next_chunk) ==
    current.content \o <<Blank>> \o next_chunk.content

\* MergedChunk with the token count taken as the sum of the two counts
\* instead of a recount of the merged content.
MutMergedChunk(current, next_chunk) ==
    [current EXCEPT
        !.content = MergedContent(current, next_chunk),
        !.section_title = current.section_title \o <<"+">> \o next_chunk.section_title,
        !.tokens = current.tokens + next_chunk.tokens,
        !.merged = TRUE]

\* The dict appended for a merge (lines 173-179): current's fields, with
\* content, section_title, tokens and merged replaced.
MergedChunk(current, next_chunk) ==
    [current EXCEPT
        !.content = MergedContent(current, next_chunk),
        !.section_title = current.section_title \o <<"+">> \o next_chunk.section_title,
        !.tokens = CountTokens(MergedContent(current, next_chunk)),
        !.merged = TRUE]

\* The sweep moving on by one after a merge.
MutMergeSkip == 2 - 1
\* How far i moves after a merge (i += 2).
MergeSkip == 2

\* One pass of the while loop of _merge_small_chunks (lines 165-183).
MergeStep ==
    /\ layout_pc = "merge"
    /\ merge_i < Len(chunks)
    /\ LET current == chunks[merge_i + 1]
       IN  IF IsSmall(current) /\ merge_i + 1 < Len(chunks)
           THEN /\ merged' = Append(merged, MergedChunk(current, chunks[merge_i + 2]))
                /\ merge_i' = merge_i + MergeSkip
           ELSE /\ merged' = Append(merged, current)
                /\ merge_i' = merge_i + 1
    /\ UNCHANGED <<layout_pc, merge_small, doc, sections, sec_i, chunks, result>>
    /\ UNCHANGED <<naive_vars, query_vars, ingest_vars, other_vars>>

\* The while loop is over: return merged (lines 185, 92-94).
MergeReturn ==
    /\ layout_pc = "merge"
    /\ ~(merge_i < Len(chunks))
    /\ result' = merged
    /\ layout_pc' = "done"
    /\ UNCHANGED <<merge_small, doc, sections, sec_i, chunks, merged, merge_i>>
    /\ UNCHANGED <<naive_vars, query_vars, ingest_vars, other_vars>>

LayoutNext ==
    \/ LayoutSplit
    \/ ChunkSection
    \/ MergeEnter
    \/ LayoutReturn
    \/ MergeStep
    \/ MergeReturn

(***************************************************************************)
(* Floating-point numbers.  query() computes the similarity in Python      *)
(* floats: every arithmetic result is rounded to the nearest float, ties   *)
(* to even.  A float is kept as the fraction n/d in lowest terms (d a      *)
(* power of two); the mantissa has FloatPrecision bits instead of 53, so   *)
(* that rounding happens on small numbers.                                 *)
(***************************************************************************)
\* Bits in the mantissa of a float.
FloatPrecision == 4

RECURSIVE Pow2(_)
Pow2(k) == IF k = 0 THEN 1 ELSE 2 * Pow2(k - 1)

Abs(x) == IF x < 0 THEN -x ELSE x

\* n/d in lowest terms, for d a power of two.
RECURSIVE Lowest(_, _)
Lowest(n, d) ==
    IF d > 1 /\ n % 2 = 0 THEN Lowest(n \div 2, d \div 2) ELSE [n |-> n, d |-> d]

\* The fraction n/d (n >= 0, d > 0) brought to q + r/d with q of exactly
\* FloatPrecision bits, then rounded to the nearest q, ties to even; up and
\* down count the doublings of n and of d made on the way.
RECURSIVE RoundPos(_, _, _, _)
RoundPos(n, d, up, down) ==
    IF n < Pow2(FloatPrecision - 1) * d THEN RoundPos(2 * n, d, up + 1, down)
    ELSE IF n >= Pow2(FloatPrecision) * d THEN RoundPos(n, 2 * d, up, down + 1)
    ELSE LET q == n \div d
             r == n % d
             m == IF 2 * r > d \/ (2 * r = d /\ q % 2 = 1) THEN q + 1 ELSE q
         IN  Lowest(m * Pow2(down), Pow2(up))

\* The float nearest to n/d (d > 0).
Fl(n, d) ==
    IF n = 0 THEN [n |-> 0, d |-> 1]
    ELSE LET a == RoundPos(Abs(n), d, 0, 0)
         IN  IF n < 0 THEN [n |-> -a.n, d |-> a.d] ELSE a

FOne == [n |-> 1, d |-> 1]
FZero == [n |-> 0, d |-> 1]

FLess(a, b) == a.n * b.d < b.n * a.d
FLeq(a, b) == a.n * b.d <= b.n * a.d

\* a + b in floats.
FAdd(a, b) == Fl(a.n * b.d + b.n * a.d, a.d * b.d)

\* a / b in floats, for b # 0.
FDiv(a, b) ==
    IF b.n > 0 THEN Fl(a.n * b.d, a.d * b.n) ELSE Fl(-(a.n * b.d), a.d * (-b.n))

\* An optional argument: <<>> is None, <<v>> is the value v.
NoneArg == <<>>
Some(v) == <<v>>

(***************************************************************************)
(* RAGQueryEngine.query                                                    *)
(***************************************************************************)
\* Most entries the index holds for a query.
MaxIndexed == 3

\* config.MIN_SIMILARITY_SCORE = 0.3
MIN_SIMILARITY_SCORE == Fl(3, 10)

\* The distances the index reports: 0, 1/16, 2 and 9, and, for an index
\* that breaks its contract, -1/2 and -1.
Distances ==
    {FZero, [n |-> 1, d |-> 16], [n |-> 2, d |-> 1], [n |-> 9, d |-> 1],
     [n |-> -1, d |-> 2], [n |-> -1, d |-> 1]}

QueryInit ==
    /\ query_pc = "call"
    /\ arg_top_k \in {NoneArg, Some(0), Some(1), Some(2)}
    /\ arg_min_score \in {NoneArg, Some(FZero), Some(Fl(1, 16)), Some(Fl(1, 2))}
    /\ collection \in SeqUpTo(Distances, MaxIndexed)
    /\ top_k = 0
    /\ min_score = FZero
    /\ n_results = 0
    /\ results = <<>>
    /\ res_i = 0
    /\ formatted_results = <<>>

QueryIdle ==
    /\ query_pc = "idle"
    /\ arg_top_k = NoneArg
    /\ arg_min_score = NoneArg
    /\ collection = <<>>
    /\ top_k = 0
    /\ min_score = FZero
    /\ n_results = 0
    /\ results = <<>>
    /\ res_i = 0
    /\ formatted_results = <<>>

\* top_k = top_k or config.DEFAULT_TOP_K: None and 0 are falsy.
EffectiveTopK(arg) ==
    IF arg # NoneArg /\ arg[1] # 0 THEN arg[1] ELSE DEFAULT_TOP_K

\* min_score = min_score or config.MIN_SIMILARITY_SCORE: None and 0.0 are falsy.
EffectiveMinScore(arg) ==
    IF arg # NoneArg /\ arg[1].n # 0 THEN arg[1] ELSE MIN_SIMILARITY_SCORE

\* n_results=top_k * 2
RequestedResults(k) == k * 2

\* The index's answer (an external collaborator): the n best entries of its
\* ranking, each with its id (its rank in the collection) and distance.
IndexQuery(ranking, n) ==
    [i \in 1..Min(n, Len(ranking)) |-> [id |-> i, distance |-> ranking[i]]]

\* 1 / (1 + distance) raises ZeroDivisionError when 1 + distance is 0.
ScoreRaises(distance) == FAdd(FOne, distance).n = 0

\* Similarity with a wrong constant: 1 / (2 + distance).
MutSimilarity(distance) == FDiv(FOne, FAdd(Fl(2, 1), distance))

\* similarity = 1 / (1 + distance)
Similarity(distance) == FDiv(FOne, FAdd(FOne, distance))

\* if similarity < min_score: continue
Filtered(similarity, threshold) == FLess(similarity, threshold)

\* Enough with the comparison off by one (> top_k).
MutEnough(list, k) == Len(list) > k

\* if len(formatted_results) >= top_k: break
Enough(list, k) == Len(list) >= k

\* Lines 66-80: the defaults, the request to the index, the empty result list.
QueryCall ==
    /\ query_pc = "call"
    /\ top_k' = EffectiveTopK(arg_top_k)
    /\ min_score' = EffectiveMinScore(arg_min_score)
    /\ n_results' = RequestedResults(top_k')
    /\ results' = IndexQuery(collection, n_results')
    /\ res_i' = 0
    /\ formatted_results' = <<>>
    /\ query_pc' = "loop"
    /\ UNCHANGED <<arg_top_k, arg_min_score, collection>>
    /\ UNCHANGED <<naive_vars, layout_vars, ingest_vars, other_vars>>

\* A pass of the loop in which the division raises: the exception leaves
\* query() and no list is returned.
QueryRaise ==
    /\ query_pc = "loop"
    /\ res_i < Len(results)
    /\ ScoreRaises(results[res_i + 1].distance)
    /\ query_pc' = "error"
    /\ UNCHANGED <<arg_top_k, arg_min_score, top_k, min_score, collection,
                   n_results, results, res_i, formatted_results>>
    /\ UNCHANGED <<naive_vars, layout_vars, ingest_vars, other_vars>>

\* A pass of the loop that drops the candidate (lines 85-90).
QuerySkip ==
    /\ query_pc = "loop"
    /\ res_i < Len(results)
    /\ ~ScoreRaises(results[res_i + 1].distance)
    /\ Filtered(Similarity(results[res_i + 1].distance), min_score)
    /\ res_i' = res_i + 1
    /\ UNCHANGED <<query_pc, arg_top_k, arg_min_score, top_k, min_score,
                   collection, n_results, results, formatted_results>>
    /\ UNCHANGED <<naive_vars, layout_vars, ingest_vars, other_vars>>

\* A pass of the loop that keeps the candidate (lines 85-101), and leaves
\* the loop when enough are kept.
QueryKeep ==
    /\ query_pc = "loop"
    /\ res_i < Len(results)
    /\ ~ScoreRaises(results[res_i + 1].distance)
    /\ ~Filtered(Similarity(results[res_i + 1].distance), min_score)
    /\ formatted_results' = Append(formatted_results,
           [id |-> results[res_i + 1].id,
            score |-> Similarity(results[res_i + 1].distance)])
    /\ IF Enough(formatted_results', top_k)
       THEN query_pc' = "done" /\ res_i' = res_i
       ELSE query_pc' = "loop" /\ res_i' = res_i + 1
    /\ UNCHANGED <<arg_top_k, arg_min_score, top_k, min_score, collection,
                   n_results, results>>
    /\ UNCHANGED <<naive_vars, layout_vars, ingest_vars, other_vars>>

\* The loop ran out of candidates: return formatted_results (line 103).
QueryReturn ==
    /\ query_pc = "loop"
    /\ ~(res_i < Len(results))
    /\ query_pc' = "done"
    /\ UNCHANGED <<arg_top_k, arg_min_score, top_k, min_score, collection,
                   n_results, results, res_i, formatted_results>>
    /\ UNCHANGED <<naive_vars, layout_vars, ingest_vars, other_vars>>

QueryNext ==
    \/ QueryCall
    \/ QueryRaise
    \/ QuerySkip
    \/ QueryKeep
    \/ QueryReturn

(***************************************************************************)
(* get_chunker and DocumentIndexer.index_directory / index_file            *)
(***************************************************************************)
\* Most files one run finds.
MaxFiles == 2
\* Most chunks the chunker makes of one file.
MaxFileChunks == 2

\* config.CHUNKING_STRATEGY
CHUNKING_STRATEGY == "layout-aware"

\* The names a caller may pass: the three strategies and two others.
StrategyArgs ==
    {NoneArg} \cup
        {Some(s) : s \in {"layout-aware", "naive", "abstract-first",
                          "semantic", ""}}

\* if strategy is None: strategy = config.CHUNKING_STRATEGY
StrategyName(arg) == IF arg = NoneArg THEN CHUNKING_STRATEGY ELSE arg[1]

\* get_chunker falling back to the layout-aware chunker for an unknown name.
MutGetChunker(arg) ==
    LET name == StrategyName(arg)
    IN  IF name = "naive" THEN "NaiveChunker"
        ELSE IF name = "abstract-first" THEN "AbstractFirstChunker"
        ELSE "LayoutAwareChunker"

\* get_chunker: the class it instantiates, or "ValueError" when it raises.
GetChunker(arg) ==
    LET name == StrategyName(arg)
    IN  IF name = "layout-aware" THEN "LayoutAwareChunker"
        ELSE IF name = "naive" THEN "NaiveChunker"
        ELSE IF name = "abstract-first" THEN "AbstractFirstChunker"
        ELSE "ValueError"

\* The paths directory.rglob can find, as <<parent directory, stem>>: two
\* files of different directories may have the same name.
Paths == {<<"x", "a">>, <<"y", "a">>, <<"x", "b">>}

\* A file of the directory: its path, whether open() and read() succeed, and
\* how many chunks chunker.chunk makes of its content.
Files ==
    {f \in [dir : {"x", "y"}, stem : {"a", "b"}, readable : BOOLEAN,
            nchunks : 0..MaxFileChunks] : <<f.dir, f.stem>> \in Paths}

\* The lists of files rglob can return: no path twice.
FileLists ==
    {l \in SeqUpTo(Files, MaxFiles) :
        \A a, b \in 1..Len(l) :
            (a # b) => (<<l[a].dir, l[a].stem>> # <<l[b].dir, l[b].stem>>)}

IngestInit ==
    /\ ingest_pc = "start"
    /\ strategy \in StrategyArgs
    /\ md_files \in FileLists
    /\ chunker = "none"
    /\ file_i = 1
    /\ total_chunks = 0
    /\ docs_read = {}
    /\ docs_chunked = {}
    /\ index_ids = <<>>

IngestIdle ==
    /\ ingest_pc = "idle"
    /\ strategy = NoneArg
    /\ md_files = <<>>
    /\ chunker = "none"
    /\ file_i = 1
    /\ total_chunks = 0
    /\ docs_read = {}
    /\ docs_chunked = {}
    /\ index_ids = <<>>

\* chunk_id = f"{file_path.stem}-chunk-{i}"
ChunkId(file, i) == <<file.stem, "chunk", i>>

\* The ids index_file builds for a file (lines 166-169).
FileIds(file) == [k \in 1..file.nchunks |-> ChunkId(file, k - 1)]

\* The index collection holds one entry per id.  collection.add of ids it
\* already holds either leaves those entries as they are and adds the
\* others (NewIds), or raises: which one depends on the index library.
Held(ids) == {ids[k] : k \in 1..Len(ids)}

NewIds(ids) == SelectSeq(ids, LAMBDA id : id \notin Held(index_ids))

\* chunker = get_chunker(strategy) raises (line 118): index_directory ends
\* with the ValueError.
IngestConfigError ==
    /\ ingest_pc = "start"
    /\ GetChunker(strategy) = "ValueError"
    /\ ingest_pc' = "error"
    /\ UNCHANGED <<strategy, chunker, md_files, file_i, total_chunks,
                   docs_read, docs_chunked, index_ids>>
    /\ UNCHANGED <<naive_vars, layout_vars, query_vars, other_vars>>

\* Lines 117-134: the chunker, the list of files, total_chunks = 0.
IngestStart ==
    /\ ingest_pc = "start"
    /\ GetChunker(strategy) # "ValueError"
    /\ chunker' = GetChunker(strategy)
    /\ file_i' = 1
    /\ total_chunks' = 0
    /\ ingest_pc' = "files"
    /\ UNCHANGED <<strategy, md_files, docs_read, docs_chunked, index_ids>>
    /\ UNCHANGED <<naive_vars, layout_vars, query_vars, other_vars>>

\* One pass of the loop over md_files (lines 135-137) with index_file
\* returning 0 for a file without chunks (lines 152-154).
IndexFileEmpty ==
    /\ ingest_pc = "files"
    /\ file_i <= Len(md_files)
    /\ md_files[file_i].readable
    /\ md_files[file_i].nchunks = 0
    /\ docs_read' = docs_read \cup {file_i}
    /\ docs_chunked' = docs_chunked \cup {file_i}
    /\ total_chunks' = total_chunks + 0
    /\ file_i' = file_i + 1
    /\ UNCHANGED <<ingest_pc, strategy, chunker, md_files, index_ids>>
    /\ UNCHANGED <<naive_vars, layout_vars, query_vars, other_vars>>

\* One pass of the loop over md_files (lines 135-137) with index_file
\* (lines 141-202) adding the chunks and returning len(chunks).
IndexFile ==
    /\ ingest_pc = "files"
    /\ file_i <= Len(md_files)
    /\ md_files[file_i].readable
    /\ md_files[file_i].nchunks > 0
    /\ docs_read' = docs_read \cup {file_i}
    /\ docs_chunked' = docs_chunked \cup {file_i}
    /\ index_ids' = index_ids \o NewIds(FileIds(md_files[file_i]))
    /\ total_chunks' = total_chunks + md_files[file_i].nchunks
    /\ file_i' = file_i + 1
    /\ UNCHANGED <<ingest_pc, strategy, chunker, md_files>>
    /\ UNCHANGED <<naive_vars, layout_vars, query_vars, other_vars>>

\* index_file raises while reading the file (lines 144-145): nothing
\* catches the exception, which leaves index_directory.
IndexFileRaises ==
    /\ ingest_pc = "files"
    /\ file_i <= Len(md_files)
    /\ ~md_files[file_i].readable
    /\ ingest_pc' = "error"
    /\ UNCHANGED <<strategy, chunker, md_files, file_i, total_chunks,
                   docs_read, docs_chunked, index_ids>>
    /\ UNCHANGED <<naive_vars, layout_vars, query_vars, other_vars>>

\* collection.add raises on an id the index already holds (lines 190-195):
\* nothing catches the exception either.
IndexFileAddRaises ==
    /\ ingest_pc = "files"
    /\ file_i <= Len(md_files)
    /\ md_files[file_i].readable
    /\ Held(FileIds(md_files[file_i])) \cap Held(index_ids) # {}
    /\ docs_read' = docs_read \cup {file_i}
    /\ docs_chunked' = docs_chunked \cup {file_i}
    /\ ingest_pc' = "error"
    /\ UNCHANGED <<strategy, chunker, md_files, file_i, total_chunks, index_ids>>
    /\ UNCHANGED <<naive_vars, layout_vars, query_vars, other_vars>>

\* The loop over md_files is over (line 139).
IngestDone ==
    /\ ingest_pc = "files"
    /\ file_i > Len(md_files)
    /\ ingest_pc' = "done"
    /\ UNCHANGED <<strategy, chunker, md_files, file_i, total_chunks,
                   docs_read, docs_chunked, index_ids>>
    /\ UNCHANGED <<naive_vars, layout_vars, query_vars, other_vars>>

IngestNext ==
    \/ IngestConfigError
    \/ IngestStart
    \/ IndexFileEmpty
    \/ IndexFile
    \/ IndexFileAddRaises
    \/ IndexFileRaises
    \/ IngestDone

(***************************************************************************)
(* The document-structure parser (parse_document_structure.py): a text is  *)
(* the sequence of its lines, a line the number of '#' it starts with, the *)
(* title that follows them and its number of words.                        *)
(***************************************************************************)
\* Longest enumerated document of the structure parser, in lines.
MaxParseLines == 4
\* Deepest enumerated heading level of the structure parser.
MaxLevel == 3
\* The pattern of extract_headers accepts one to six '#'.
HEADER_MAX_HASHES == 6

HeaderLine(level) == [hashes |-> level, title |-> "T", words |-> 2]
PlainLine == [hashes |-> 0, title |-> "", words |-> 3]
EmptyLine == [hashes |-> 0, title |-> "", words |-> 0]

\* The lines of the enumerated documents: headings of every level up to
\* MaxLevel, a line of seven '#' (not a heading), text and the empty line.
ParseAlphabet ==
    {HeaderLine(l) : l \in 1..MaxLevel}
        \cup {HeaderLine(HEADER_MAX_HASHES + 1), PlainLine, EmptyLine}

\* content.split('\n') always holds at least one line.
ParseDocs == SeqUpTo(ParseAlphabet, MaxParseLines) \ {<<>>}

\* count_tokens: int(len(text.split()) * 1.3)
RECURSIVE SumWords(_)
SumWords(text) ==
    IF text = <<>> THEN 0 ELSE text[1].words + SumWords(Tail(text))

WordTokens(text) == (13 * SumWords(text)) \div 10

\* re.match(r'^(#{1,6})\s+(.+)$', line.strip())
HeaderMatch(line) ==
    /\ line.hashes \in 1..HEADER_MAX_HASHES
    /\ line.title # ""

\* The loop of extract_headers: line_num counts from 1.
RECURSIVE ExtractLoop(_, _, _)
ExtractLoop(lines, i, found) ==
    IF i > Len(lines) THEN found
    ELSE ExtractLoop(lines, i + 1,
             IF HeaderMatch(lines[i])
             THEN Append(found, [level |-> lines[i].hashes,
                                 title |-> lines[i].title,
                                 line_num |-> i])
             ELSE found)

ExtractHeaders(lines) == ExtractLoop(lines, 1, <<>>)

\* f"sec_{i}"
SecId(i) == <<"sec", i>>

\* for j in range(i - 1, -1, -1): the first header above with a smaller
\* level (hdrs is 1-based here, i and j are the code's 0-based indices).
RECURSIVE ParentLoop(_, _, _)
ParentLoop(hdrs, i, j) ==
    IF j < 0 THEN NoneArg
    ELSE IF hdrs[j + 1].level < hdrs[i + 1].level THEN SecId(j)
    ELSE ParentLoop(hdrs, i, j - 1)

\* The body of the first loop of build_section_hierarchy for header i
\* (0-based): lines[start_line:end_line] slices the 0-based list of lines
\* with the 1-based line numbers.
BuildSection(lines, hdrs, i) ==
    LET header == hdrs[i + 1]
        start_line == header.line_num
        end_line == IF i + 1 < Len(hdrs) THEN hdrs[i + 2].line_num - 1
                    ELSE Len(lines)
        section_lines == PySlice(lines, start_line, end_line)
    IN  [id |-> SecId(i),
         title |-> header.title,
         level |-> header.level,
         parent_id |-> ParentLoop(hdrs, i, i - 1),
         start_line |-> start_line,
         end_line |-> end_line,
         token_count |-> WordTokens(section_lines),
         content |-> section_lines,
         children |-> <<>>]

\* The second loop: the children of a section, in the order of the list.
RECURSIVE ChildrenLoop(_, _, _, _)
ChildrenLoop(secs, id, k, found) ==
    IF k > Len(secs) THEN found
    ELSE ChildrenLoop(secs, id, k + 1,
             IF secs[k].parent_id = id THEN Append(found, secs[k].id)
             ELSE found)

MutLinkChildren(secs) ==
    [k \in 1..Len(secs) |->
        [secs[k] EXCEPT !.children = ChildrenLoop(secs, SecId(0), 1, <<>>)]]
LinkChildren(secs) ==
    [k \in 1..Len(secs) |->
        [secs[k] EXCEPT !.children = ChildrenLoop(secs, secs[k].id, 1, <<>>)]]

ParserInit ==
    /\ parser_pc = "start"
    /\ parse_lines \in ParseDocs
    /\ headers = <<>>
    /\ hier = <<>>
    /\ hdr_i = 0

ParserIdle ==
    /\ parser_pc = "idle"
    /\ parse_lines = <<>>
    /\ headers = <<>>
    /\ hier = <<>>
    /\ hdr_i = 0

\* headers = extract_headers(content) (main, line 143)
ParseHeaders ==
    /\ parser_pc = "start"
    /\ headers' = ExtractHeaders(parse_lines)
    /\ hdr_i' = 0
    /\ parser_pc' = "build"
    /\ UNCHANGED <<parse_lines, hier>>
    /\ UNCHANGED <<rag_vars, meta_vars, extract_vars, af_vars>>

\* One pass of the first loop of build_section_hierarchy (lines 57-86).
BuildStep ==
    /\ parser_pc = "build"
    /\ hdr_i < Len(headers)
    /\ hier' = Append(hier, BuildSection(parse_lines, headers, hdr_i))
    /\ hdr_i' = hdr_i + 1
    /\ UNCHANGED <<parser_pc, parse_lines, headers>>
    /\ UNCHANGED <<rag_vars, meta_vars, extract_vars, af_vars>>

\* The second loop of build_section_hierarchy and its return (lines 88-94).
BuildReturn ==
    /\ parser_pc = "build"
    /\ hdr_i >= Len(headers)
    /\ hier' = LinkChildren(hier)
    /\ parser_pc' = "done"
    /\ UNCHANGED <<parse_lines, headers, hdr_i>>
    /\ UNCHANGED <<rag_vars, meta_vars, extract_vars, af_vars>>

ParserNext ==
    \/ ParseHeaders
    \/ BuildStep
    \/ BuildReturn

(***************************************************************************)
(* MetadataExtractor.extract_from_content (ingest.py).  A text is a        *)
(* sequence of items, written one space apart on a line: '>', a bold key   *)
(* '**Key:**', a word, '|', '#' and the line break.                        *)
(***************************************************************************)
\* Longest enumerated text of the metadata extractor, in items.
MaxMetaItems == 4

Item(kind, text) == [kind |-> kind, text |-> text]

MetaAlphabet ==
    {Item("quote", ">"), Item("key", "Service"), Item("key", "Severity"),
     Item("val", "checkout"), Item("val", "sev2"), Item("pipe", "|"),
     Item("nl", "nl"), Item("hash", "#")}

\* > **Service:** checkout | **Severity:** SEV2
ExampleLine ==
    <<Item("quote", ">"), Item("key", "Service"), Item("val", "checkout"),
      Item("pipe", "|"), Item("key", "Severity"), Item("val", "SEV2")>>

\* str.lower() and str.upper() on the words of the texts.
Lower(t) ==
    CASE t = "Service" -> "service"
      [] t = "Severity" -> "severity"
      [] t = "SEV2" -> "sev2"
      [] OTHER -> t

Upper(t) ==
    CASE t = "Service" -> "SERVICE"
      [] t = "Severity" -> "SEVERITY"
      [] t = "checkout" -> "CHECKOUT"
      [] t = "sev2" -> "SEV2"
      [] OTHER -> t

IsNL(items, i) == items[i].kind = "nl"

\* \s* over line breaks: the first position from i on that is no line break.
RECURSIVE SkipNL(_, _)
SkipNL(items, i) ==
    IF i <= Len(items) /\ IsNL(items, i) THEN SkipNL(items, i + 1) ELSE i

\* (?:\s*\||$) after a value ending with item f: the position the match
\* ends at, or 0.  '$' (no re.MULTILINE) is the end of the text, or the
\* place before a line break that ends the text.
Terminator(items, f) ==
    LET n == Len(items)
        g == SkipNL(items, f + 1)
    IN  IF g <= n /\ items[g].kind = "pipe" THEN g
        ELSE IF f = n \/ (f + 1 = n /\ IsNL(items, n)) THEN f
        ELSE 0

\* (.+?) of the value: the shortest run of items of one line, from v0 on,
\* that a terminator follows.  <<v0, f, end>> or <<>>.
RECURSIVE ValueLoop(_, _, _)
ValueLoop(items, v0, f) ==
    IF f > Len(items) \/ IsNL(items, f) THEN <<>>
    ELSE IF Terminator(items, f) # 0 THEN <<v0, f, Terminator(items, f)>>
    ELSE ValueLoop(items, v0, f + 1)

\* \s*(.+?)(?:\s*\||$) after the key ending with item e.  When no value of
\* items matches and a '|' follows the key on its line, the value is the
\* blank between them (empty once stripped).
ValueTry(items, e) ==
    LET v0 == SkipNL(items, e + 1)
        r == ValueLoop(items, v0, v0)
    IN  IF r # <<>> THEN r
        ELSE IF e < Len(items) /\ items[e + 1].kind = "pipe"
             THEN <<e + 1, e, e + 1>>
        ELSE <<>>

\* \*\*(.+?):\*\* : the key ends at the first ':**' of its line after
\* which the rest of the pattern matches.  <<j, e, v0, f, end>> or <<>>.
RECURSIVE KeyLoop(_, _, _)
KeyLoop(items, j, e) ==
    IF e > Len(items) \/ IsNL(items, e) THEN <<>>
    ELSE IF items[e].kind = "key" /\ ValueTry(items, e) # <<>>
         THEN <<j, e>> \o ValueTry(items, e)
    ELSE KeyLoop(items, j, e + 1)

\* The pattern tried at item i: '>' then, after blanks, '**'.
MatchAt(items, i) ==
    IF items[i].kind # "quote" THEN <<>>
    ELSE LET j == SkipNL(items, i + 1)
         IN  IF j > Len(items) \/ items[j].kind # "key" THEN <<>>
             ELSE KeyLoop(items, j, j)

\* re.finditer: the first match at or after item p.
RECURSIVE NextMatch(_, _)
NextMatch(items, p) ==
    IF p > Len(items) THEN <<>>
    ELSE IF MatchAt(items, p) # <<>> THEN MatchAt(items, p)
    ELSE NextMatch(items, p + 1)

LowerWords(items, a, b) == [n \in 1..(b - a + 1) |-> Lower(items[a + n - 1].text)]
Words(items, a, b) == [n \in 1..(b - a + 1) |-> items[a + n - 1].text]

\* metadata[key] = value
Put(md, key, value) ==
    [x \in (DOMAIN md) \cup {key} |-> IF x = key THEN value ELSE md[x]]

AtLineStart(items, i) == i = 1 \/ IsNL(items, i - 1)

RECURSIVE LineEnd(_, _)
LineEnd(items, f) ==
    IF f + 1 <= Len(items) /\ ~IsNL(items, f + 1) THEN LineEnd(items, f + 1)
    ELSE f

\* re.search(r'^#\s+(.+)$', content, re.MULTILINE): the first '#' at the
\* start of a line that text follows, and the rest of that text's line.
RECURSIVE H1Search(_, _)
H1Search(items, i) ==
    IF i > Len(items) THEN <<>>
    ELSE IF /\ items[i].kind = "hash"
            /\ AtLineStart(items, i)
            /\ SkipNL(items, i + 1) <= Len(items)
         THEN <<Words(items, SkipNL(items, i + 1),
                      LineEnd(items, SkipNL(items, i + 1)))>>
    ELSE H1Search(items, i + 1)

WithServiceName(md) ==
    IF <<"service">> \in DOMAIN md
    THEN Put(md, <<"service_name">>, md[<<"service">>])
    ELSE md

WithSeverity(md) ==
    IF <<"severity">> \in DOMAIN md
    THEN Put(md, <<"severity">>,
             [n \in 1..Len(md[<<"severity">>]) |-> Upper(md[<<"severity">>][n])])
    ELSE md

WithTitle(md, items) ==
    IF H1Search(items, 1) # <<>>
    THEN Put(md, <<"title">>, H1Search(items, 1)[1])
    ELSE md

\* The metadata the function starts from, for the file doc.md.
InitialMetadata ==
    Put(Put(<<>>, <<"source_file">>, <<"doc.md">>),
        <<"content_type">>, <<"document">>)

MetaInit ==
    /\ meta_pc = "scan"
    /\ meta_text \in SeqUpTo(MetaAlphabet, MaxMetaItems) \cup {ExampleLine}
    /\ scan_pos = 1
    /\ metadata = InitialMetadata

MetaIdle ==
    /\ meta_pc = "idle"
    /\ meta_text = <<>>
    /\ scan_pos = 1
    /\ metadata = <<>>

\* One pass of the loop over re.finditer (lines 46-49).
MetaMatch ==
    /\ meta_pc = "scan"
    /\ NextMatch(meta_text, scan_pos) # <<>>
    /\ LET m == NextMatch(meta_text, scan_pos)
       IN  /\ metadata' = Put(metadata, LowerWords(meta_text, m[1], m[2]),
                              Words(meta_text, m[3], m[4]))
           /\ scan_pos' = m[5] + 1
    /\ UNCHANGED <<meta_pc, meta_text>>
    /\ UNCHANGED <<rag_vars, parser_vars, extract_vars, af_vars>>

\* No further match: the title, the clean-up and the return (lines 51-62).
MetaReturn ==
    /\ meta_pc = "scan"
    /\ NextMatch(meta_text, scan_pos) = <<>>
    /\ metadata' = WithSeverity(WithServiceName(WithTitle(metadata, meta_text)))
    /\ meta_pc' = "done"
    /\ UNCHANGED <<meta_text, scan_pos>>
    /\ UNCHANGED <<rag_vars, parser_vars, extract_vars, af_vars>>

MetaNext ==
    \/ MetaMatch
    \/ MetaReturn

(***************************************************************************)
(* AbstractFirstChunker._extractive_abstract (chunker.py).  Here a text is *)
(* a sequence of characters and the codec has one token per character.     *)
(***************************************************************************)
\* Longest run of letters the enumerated contents start with.
MaxRun == 10
\* Longest enumerated tail of letters, terminators and blanks after the run.
MaxTail == 4

ABSTRACT_MAX_TOKENS == 200

Chars == {"a", ".", "!", "?", " "}

\* The contents handed to _extractive_abstract: a run of letters, then any
\* characters.
ExtractContents ==
    {[i \in 1..n |-> "a"] \o tail :
        n \in 0..MaxRun, tail \in SeqUpTo(Chars, MaxTail)}

\* self.abstract_max_tokens: config.ABSTRACT_MAX_TOKENS, or a limit short
\* enough to cut the enumerated contents.
AbstractLimits == {MaxRun + MaxTail - 1, ABSTRACT_MAX_TOKENS}

\* abstract.rfind(char) for the two-character string char = c + ' ':
\* 0-based position of its last occurrence, or -1.
RFind(text, c) ==
    LET found == {p \in 0..(Len(text) - 2) :
                     text[p + 1] = c /\ text[p + 2] = " "}
    IN  IF found = {} THEN -1
        ELSE CHOOSE p \in found : \A q \in found : q <= p

\* last_pos > len(abstract) * 0.7 (in floating point; for the lengths of
\* this model, all below 90, the same as in exact arithmetic).
CloseToEnd(last_pos, text) == 10 * last_pos > 7 * Len(text)

\* The loop over ['. ', '! ', '? '] (lines 287-291), kinds being the
\* terminators still to try.
RECURSIVE TrimLoop(_, _)
TrimLoop(text, kinds) ==
    IF kinds = <<>> THEN text
    ELSE IF CloseToEnd(RFind(text, Head(kinds)), text)
         THEN PySlice(text, 0, RFind(text, Head(kinds)) + 1)
    ELSE TrimLoop(text, Tail(kinds))

SentenceTrim(text) == TrimLoop(text, <<".", "!", "?">>)

ExtractInit ==
    /\ ex_pc = "start"
    /\ ex_content \in ExtractContents
    /\ abstract_max_tokens \in AbstractLimits
    /\ abstract = <<>>

ExtractIdle ==
    /\ ex_pc = "idle"
    /\ ex_content = <<>>
    /\ abstract_max_tokens = ABSTRACT_MAX_TOKENS
    /\ abstract = <<>>

\* Lines 281-283: the decoded text of the first N tokens.
ExtractDecode ==
    /\ ex_pc = "start"
    /\ abstract' = Decode(PySlice(Encode(ex_content), 0, abstract_max_tokens))
    /\ ex_pc' = "trim"
    /\ UNCHANGED <<ex_content, abstract_max_tokens>>
    /\ UNCHANGED <<rag_vars, parser_vars, meta_vars, af_vars>>

\* Lines 285-293: the cut at a sentence boundary, and the return.
ExtractReturn ==
    /\ ex_pc = "trim"
    /\ abstract' = SentenceTrim(abstract)
    /\ ex_pc' = "done"
    /\ UNCHANGED <<ex_content, abstract_max_tokens>>
    /\ UNCHANGED <<rag_vars, parser_vars, meta_vars, af_vars>>

ExtractNext ==
    \/ ExtractDecode
    \/ ExtractReturn

(***************************************************************************)
(* AbstractFirstChunker.chunk (chunker.py): the layout-aware chunking,     *)
(* then an abstract for every chunk.  The chunks' contents are texts of    *)
(* lines, as in the layout-aware chunker.                                  *)
(***************************************************************************)
ABSTRACT_GENERATION_METHOD == "extractive"

\* decode(encode(text)[:n]) on a text of lines: each line break is one
\* token, and the cut may fall inside a line or right after a line break.
RECURSIVE TakeTokens(_, _)
TakeTokens(text, n) ==
    IF text = <<>> \/ n <= 0 THEN <<>>
    ELSE IF Head(text).tok >= n THEN <<[Head(text) EXCEPT !.tok = n]>>
    ELSE IF Len(text) = 1 THEN text
    ELSE IF n - Head(text).tok = 1 THEN <<Head(text), Blank>>
    ELSE <<Head(text)>> \o TakeTokens(Tail(text), n - Head(text).tok - 1)

\* _extractive_abstract on a text of lines.  The lines of this text model
\* hold no sentence terminator, so rfind returns -1 for each kind and the
\* loop over the terminators leaves the abstract as it is.
ExtractiveAbstract(text, n) == TakeTokens(text, n)

\* _generate_abstract: both branches call _extractive_abstract.
GenerateAbstract(method, text, n) ==
    IF method = "extractive" THEN ExtractiveAbstract(text, n)
    ELSE ExtractiveAbstract(text, n)

\* WithAbstract that stores the abstract's token count as the chunk's.
MutWithAbstract(chunk, method, n) ==
    [content |-> chunk.content,
     section_title |-> chunk.section_title,
     heading_level |-> chunk.heading_level,
     tokens |-> CountTokens(GenerateAbstract(method, chunk.content, n)),
     chunk_index |-> chunk.chunk_index,
     merged |-> chunk.merged,
     abstract |-> GenerateAbstract(method, chunk.content, n),
     abstract_tokens |-> CountTokens(GenerateAbstract(method, chunk.content, n))]
\* The body of the loop over base_chunks (lines 261-262): the chunk with
\* the keys abstract and abstract_tokens set.
WithAbstract(chunk, method, n) ==
    [content |-> chunk.content,
     section_title |-> chunk.section_title,
     heading_level |-> chunk.heading_level,
     tokens |-> chunk.tokens,
     chunk_index |-> chunk.chunk_index,
     merged |-> chunk.merged,
     abstract |-> GenerateAbstract(method, chunk.content, n),
     abstract_tokens |-> CountTokens(GenerateAbstract(method, chunk.content, n))]

AbstractFirstInit ==
    /\ af_pc = "base"
    /\ af_method \in {ABSTRACT_GENERATION_METHOD, "llm"}
    /\ af_chunks = <<>>

AbstractFirstIdle ==
    /\ af_pc = "idle"
    /\ af_method = ABSTRACT_GENERATION_METHOD
    /\ af_chunks = <<>>

\* base_chunks = super().chunk(content, metadata) has returned: the loop
\* over base_chunks and the return (lines 260-264).
AddAbstracts ==
    /\ af_pc = "base"
    /\ layout_pc = "done"
    /\ af_chunks' = [p \in 1..Len(result) |->
                        WithAbstract(result[p], af_method, abstract_max_tokens)]
    /\ af_pc' = "done"
    /\ UNCHANGED af_method
    /\ UNCHANGED <<rag_vars, parser_vars, meta_vars, extract_vars>>

\* super().chunk runs as LayoutAwareChunker.chunk does.
AbstractFirstNext ==
    \/ LayoutNext
    \/ AddAbstracts

\* The operations added to the four above stay idle in their specifications.
OtherIdle == ParserIdle /\ MetaIdle /\ ExtractIdle /\ AbstractFirstIdle

(***************************************************************************)
(* The specifications.                                                     *)
(***************************************************************************)
InitNaive == NaiveInit /\ LayoutIdle /\ QueryIdle /\ IngestIdle /\ OtherIdle
SpecNaive == InitNaive /\ [][NaiveNext]_vars

InitLayout == NaiveIdle /\ LayoutInit /\ QueryIdle /\ IngestIdle /\ OtherIdle
SpecLayout == InitLayout /\ [][LayoutNext]_vars

InitQuery == NaiveIdle /\ LayoutIdle /\ QueryInit /\ IngestIdle /\ OtherIdle
SpecQuery == InitQuery /\ [][QueryNext]_vars

InitIngest == NaiveIdle /\ LayoutIdle /\ QueryIdle /\ IngestInit /\ OtherIdle
SpecIngest == InitIngest /\ [][IngestNext]_vars

RagIdle == NaiveIdle /\ LayoutIdle /\ QueryIdle /\ IngestIdle

InitParser ==
    RagIdle /\ ParserInit /\ MetaIdle /\ ExtractIdle /\ AbstractFirstIdle
SpecParser == InitParser /\ [][ParserNext]_vars

InitMeta ==
    RagIdle /\ ParserIdle /\ MetaInit /\ ExtractIdle /\ AbstractFirstIdle
SpecMeta == InitMeta /\ [][MetaNext]_vars

InitExtract ==
    RagIdle /\ ParserIdle /\ MetaIdle /\ ExtractInit /\ AbstractFirstIdle
SpecExtract == InitExtract /\ [][ExtractNext]_vars

InitAbstractFirst ==
    /\ NaiveIdle /\ LayoutInit /\ QueryIdle /\ IngestIdle
    /\ ParserIdle /\ MetaIdle /\ ExtractIdle /\ AbstractFirstInit
SpecAbstractFirst == InitAbstractFirst /\ [][AbstractFirstNext]_vars

(***************************************************************************)
(* Claims about NaiveChunker.chunk (checked under SpecNaive).              *)
(***************************************************************************)
\* C1: for every document and every configuration with 0 <= overlap <
\* window size, chunk terminates: every pass of the loop moves start strictly
\* forward, so that start reaches len(tokens) after at most len(tokens)
\* passes and the list returned has at most one chunk per token.
C1_NaiveTerminates ==
    /\ Len(naive_chunks) <= Len(tokens)
    /\ \A p \in 1..Len(naive_chunks) :
          p > 1 => naive_chunks[p].start_token > naive_chunks[p - 1].start_token

\* C2: every emitted chunk has at most chunk_size tokens, every chunk but the
\* last has exactly chunk_size tokens, and consecutive chunks share exactly
\* overlap tokens: next.start_token = previous.end_token - overlap, with
\* previous.end_token - previous.start_token = chunk_size.
C2_NaiveWindows ==
    \A p \in 1..Len(naive_chunks) :
        /\ naive_chunks[p].tokens <= chunk_size
        /\ p < Len(naive_chunks) =>
              /\ naive_chunks[p].tokens = chunk_size
              /\ naive_chunks[p].end_token - naive_chunks[p].start_token = chunk_size
              /\ naive_chunks[p + 1].start_token = naive_chunks[p].end_token - overlap

\* The token ranges of the spec's example.
ExampleRanges == <<<<0, 512>>, <<462, 974>>, <<924, 1000>>>>

\* C3: with window 512 and overlap 50, a document of exactly 1000 tokens
\* gives exactly the three chunks [0,512), [462,974), [924,1000), in that
\* order: no chunk beyond them is emitted, and chunk() returns.
C3_NaiveExample ==
    (content = Doc1000 /\ chunk_size = 512 /\ overlap = 50) =>
        /\ Len(naive_chunks) <= Len(ExampleRanges)
        /\ \A p \in 1..Len(naive_chunks) :
              /\ naive_chunks[p].start_token = ExampleRanges[p][1]
              /\ naive_chunks[p].end_token = ExampleRanges[p][2]
        /\ Len(naive_chunks) = Len(ExampleRanges) => ~ENABLED NaiveStep

(***************************************************************************)
(* Claims about LayoutAwareChunker.chunk (checked under SpecLayout).       *)
(***************************************************************************)
\* C4: in every list chunk() returns, merge pass or not, the chunk at
\* position p (0-based) has chunk_index = p.
C4_ChunkIndexIsPosition ==
    layout_pc = "done" =>
        \A p \in 1..Len(result) : result[p].chunk_index = p - 1

\* The sweep of the merge pass stands at a chunk below the minimum that has a
\* following chunk.
AtSmallWithNext ==
    /\ layout_pc = "merge"
    /\ merge_i + 1 < Len(chunks)
    /\ chunks[merge_i + 1].tokens < LAYOUT_AWARE_MIN_TOKENS

\* The chunk a merge of current with next is to put out: the two contents
\* joined by a blank line, the two titles joined by "+", the exact token
\* count of the joined content, the flag merged.
IsMergeOf(c, current, next_chunk) ==
    /\ c.content = current.content \o <<Blank>> \o next_chunk.content
    /\ c.section_title = current.section_title \o <<"+">> \o next_chunk.section_title
    /\ c.merged = TRUE
    /\ c.tokens = CountTokens(c.content)
    /\ c.tokens # current.tokens + next_chunk.tokens

\* C5: whenever the merge pass stands at a chunk below the minimum that has a
\* following chunk, it appends exactly one chunk, the merge of that chunk
\* with the next one (forward, never with the previous one); and the spec's
\* example, sections A = 400, B = 50, C = 300 tokens, yields exactly
\* [A unmerged, "B + C" merged].
C5_MergeForward ==
    /\ [][AtSmallWithNext =>
            /\ Len(merged') = Len(merged) + 1
            /\ SubSeq(merged', 1, Len(merged)) = merged
            /\ IsMergeOf(merged'[Len(merged')], chunks[merge_i + 1],
                         chunks[merge_i + 2])]_vars
    /\ []((doc = ExampleDoc /\ merge_small /\ layout_pc = "done") =>
            /\ Len(result) = 2
            /\ result[1].section_title = <<"A">>
            /\ result[1].tokens = 400
            /\ ~result[1].merged
            /\ result[2].section_title = <<"B", "+", "C">>
            /\ result[2].merged
            /\ result[2].content =
                   <<Heading(2, "B"), Text(44), Blank, Heading(2, "C"), Text(294)>>
            /\ result[2].tokens = CountTokens(result[2].content))

\* C5's case: the example was chunked, and B was merged with C.
C5_Witness ==
    /\ doc = ExampleDoc
    /\ merge_small
    /\ layout_pc = "done"
    /\ Len(result) = 2
    /\ result[2].merged

\* What a chunk says of its section: content, title and heading level.
Core(c) ==
    [content |-> c.content, section_title |-> c.section_title,
     heading_level |-> c.heading_level]

\* The chunks the classification by token count t asks of one section:
\* none for t < 50, one h2 chunk for 50 <= t <= max, and for t > max one h3
\* chunk per level-3 piece, titled "<parent title> - <sub title>".
ChunksAskedOf(section) ==
    LET t == CountTokens(section.content)
        pieces == SplitByH3(section.content)
    IN  IF t < 50 THEN <<>>
        ELSE IF t <= LAYOUT_AWARE_MAX_TOKENS
        THEN <<[content |-> section.content, section_title |-> section.title,
                heading_level |-> "h2"]>>
        ELSE [j \in 1..Len(pieces) |->
                 [content |-> pieces[j].content,
                  section_title |-> section.title \o <<"-">> \o pieces[j].title,
                  heading_level |-> "h3"]]

\* The chunks asked of the first n sections, in document order.
RECURSIVE ChunksAskedUpTo(_)
ChunksAskedUpTo(n) ==
    IF n = 0 THEN <<>> ELSE ChunksAskedUpTo(n - 1) \o ChunksAskedOf(sections[n])

DistanceOf(r) == results[r.id].distance

\* The similarity s of distance dist is 1 / (1 + dist) up to the rounding of
\* the addition and of the division: |s * (1 + dist) - 1| <= 2^-(p-2).
NearInverse(s, dist) ==
    Abs(s.n * (dist.d + dist.n) - s.d * dist.d) * Pow2(FloatPrecision - 2)
        <= s.d * dist.d

\* What C7 says of one returned result with a distance >= 0.
ScoreInRange(r) ==
    /\ NearInverse(r.score, DistanceOf(r))
    /\ FLess(FZero, r.score)
    /\ FLeq(r.score, FOne)
    /\ DistanceOf(r) = FZero => r.score = FOne
    /\ DistanceOf(r) = [n |-> 9, d |-> 1] => r.score = Fl(1, 10)

ReturnedPairs ==
    {pr \in (1..Len(formatted_results)) \X (1..Len(formatted_results)) :
        /\ FLeq(FZero, DistanceOf(formatted_results[pr[1]]))
        /\ FLess(DistanceOf(formatted_results[pr[1]]),
                 DistanceOf(formatted_results[pr[2]]))}

\* C7 as stated: the similarity of a distance d >= 0 is 1 / (1 + d), lies in
\* (0, 1], is 1 for d = 0 and 0.1 for d = 9, and is strictly decreasing:
\* score(d1) > score(d2) for all 0 <= d1 < d2.
C7_ScoreStrictlyDecreasing ==
    /\ \A p \in 1..Len(formatted_results) :
          FLeq(FZero, DistanceOf(formatted_results[p])) =>
              ScoreInRange(formatted_results[p])
    /\ \A pr \in ReturnedPairs :
          FLess(formatted_results[pr[2]].score, formatted_results[pr[1]].score)

\* C7 as amended: the similarity of a distance d >= 0 is 1 / (1 + d) in
\* floating point, lies in (0, 1], is 1 for d = 0 and 0.1 for d = 9, and is
\* non-increasing: score(d1) >= score(d2) for all 0 <= d1 < d2.
C7_ScoreNonIncreasing ==
    /\ \A p \in 1..Len(formatted_results) :
          FLeq(FZero, DistanceOf(formatted_results[p])) =>
              ScoreInRange(formatted_results[p])
    /\ \A pr \in ReturnedPairs :
          FLeq(formatted_results[pr[2]].score, formatted_results[pr[1]].score)

\* C7's case: one query returned results of distances 0, 1/16 and 9.
C7_Witness ==
    /\ query_pc = "done"
    /\ {DistanceOf(formatted_results[p]) : p \in 1..Len(formatted_results)} =
           {FZero, [n |-> 1, d |-> 16], [n |-> 9, d |-> 1]}

\* A candidate that the filter lets through.
Survives(candidate) ==
    /\ ~ScoreRaises(candidate.distance)
    /\ FLeq(min_score, Similarity(candidate.distance))

\* The candidates that survive, in the index's ranking order.
Survivors == SelectSeq(results, Survives)

\* C8: query asks the index for 2 * top_k candidates and returns exactly the
\* first min(top_k, s) of the s candidates whose similarity is at least the
\* threshold, in the index's ranking order; never more than top_k, every
\* score at least the threshold; fewer than top_k, or none, is not an error.
C8_FirstTopKSurvivors ==
    /\ query_pc \in {"loop", "done", "error"} =>
          /\ n_results = 2 * top_k
          /\ results = IndexQuery(collection, 2 * top_k)
          /\ Len(formatted_results) <= top_k
    /\ query_pc = "done" =>
          /\ Len(formatted_results) = Min(top_k, Len(Survivors))
          /\ \A p \in 1..Len(formatted_results) :
                /\ formatted_results[p].id = Survivors[p].id
                /\ formatted_results[p].score = Similarity(Survivors[p].distance)
                /\ FLeq(min_score, formatted_results[p].score)
    /\ query_pc = "error" => ScoreRaises(results[res_i + 1].distance)

\* C8's case: the index holds three entries, two were asked for (top_k = 1),
\* both survive, the second is the nearer one, and the first is returned.
C8_Witness ==
    /\ query_pc = "done"
    /\ top_k = 1
    /\ Len(collection) = 3
    /\ Len(results) = 2
    /\ Len(Survivors) = 2
    /\ FLess(results[2].distance, results[1].distance)
    /\ Len(formatted_results) = 1
    /\ formatted_results[1].id = 1

\* C9: the scoring never raises for a distance >= 0, and a negative distance
\* ends the query in an error: no list is returned that holds a result of
\* negative distance or a score outside [0, 1].
C9_NegativeDistanceIsError ==
    /\ query_pc = "error" => FLess(results[res_i + 1].distance, FZero)
    /\ query_pc = "done" =>
          \A p \in 1..Len(formatted_results) :
              /\ FLeq(FZero, DistanceOf(formatted_results[p]))
              /\ FLeq(FZero, formatted_results[p].score)
              /\ FLeq(formatted_results[p].score, FOne)

(***************************************************************************)
(* Claims about get_chunker and index_directory (checked under SpecIngest).*)
(***************************************************************************)
\* C10: get_chunker gives the Layout-Aware, Naive or Abstract-First chunker
\* for the names layout-aware, naive, abstract-first, and raises for every
\* other name; in index_directory no document is read, chunked or written
\* to the index when it does.
C10_UnknownStrategyFailsFirst ==
    /\ ingest_pc \in {"files", "done"} =>
          /\ strategy = Some("layout-aware") => chunker = "LayoutAwareChunker"
          /\ strategy = Some("naive") => chunker = "NaiveChunker"
          /\ strategy = Some("abstract-first") => chunker = "AbstractFirstChunker"
    /\ (strategy # NoneArg
          /\ strategy[1] \notin {"layout-aware", "naive", "abstract-first"}) =>
          /\ ingest_pc \in {"start", "error"}
          /\ chunker = "none"
          /\ docs_read = {}
          /\ docs_chunked = {}
          /\ index_ids = <<>>
          /\ total_chunks = 0

\* C10's case: index_directory was called with an unknown name on a
\* directory that holds a readable file with chunks, and ended in the error.
C10_Witness ==
    /\ ingest_pc = "error"
    /\ strategy = Some("semantic")
    /\ Len(md_files) > 0
    /\ md_files[1].readable
    /\ md_files[1].nchunks > 0

(***************************************************************************)
(* Claims on the document-structure parser (SpecParser).                   *)
(***************************************************************************)
\* The 0-based indices of the headers before header i whose level is
\* strictly smaller.
LowerBefore(i) ==
    {j \in 0..(i - 1) : headers[j + 1].level < headers[i + 1].level}

SetMax(S) == CHOOSE m \in S : \A n \in S : n <= m

\* The ids of the sections whose parent_id is id, in document order.
ChildrenOf(id) ==
    LET kids == {k \in 1..Len(hier) : hier[k].parent_id = id}
        Rank(k) == Cardinality({m \in kids : m <= k})
    IN  [r \in 1..Cardinality(kids) |->
            hier[CHOOSE k \in kids : Rank(k) = r].id]

\* C11: the parent_id of every section built is the nearest preceding
\* heading of strictly lower level, or None when there is none, so a parent
\* always comes earlier and is strictly higher in the hierarchy (an acyclic
\* forest); once build_section_hierarchy has returned, every section's
\* children list holds exactly the ids of the sections whose parent_id is
\* its id, in document order.
C11_ParentIsNearestLower ==
    /\ \A k \in 1..Len(hier) :
          /\ hier[k].id = SecId(k - 1)
          /\ hier[k].level = headers[k].level
          /\ IF LowerBefore(k - 1) = {}
             THEN hier[k].parent_id = NoneArg
             ELSE LET j == SetMax(LowerBefore(k - 1))
                  IN  /\ hier[k].parent_id = SecId(j)
                      /\ j < k - 1
                      /\ hier[j + 1].level < hier[k].level
    /\ (parser_pc = "done") =>
          /\ Len(hier) = Len(headers)
          /\ \A k \in 1..Len(hier) : hier[k].children = ChildrenOf(hier[k].id)

\* A returned hierarchy where a section has two children, the second of
\* which does not follow its parent directly.
C11_Witness ==
    /\ parser_pc = "done"
    /\ \E k \in 1..Len(hier) :
          /\ Len(hier[k].children) >= 2
          /\ hier[k].children[2] # SecId(k)

\* The lines of the text from line a through line b (1-based, inclusive).
LinesFromTo(a, b) ==
    IF a <= b THEN [n \in 1..(b - a + 1) |-> parse_lines[a + n - 1]]
    ELSE <<>>

\* The line that ends the section of header k (1-based): the line before
\* the next heading, or the last line of the text.
SectionEnd(k) ==
    IF k < Len(headers) THEN headers[k + 1].line_num - 1
    ELSE Len(parse_lines)

RECURSIVE ConcatContents(_)
ConcatContents(secs) ==
    IF secs = <<>> THEN <<>>
    ELSE secs[1].content \o ConcatContents(Tail(secs))

\* C12: the content of every section is exactly the lines from its own
\* heading line, inclusive, through the line before the next heading of any
\* level (or the last line of the text); the contents of consecutive
\* sections therefore follow one another without overlap and leave out no
\* line after the first heading.
C12_ContentFromHeadingLine ==
    (parser_pc = "done") =>
        /\ \A k \in 1..Len(hier) :
              hier[k].content = LinesFromTo(headers[k].line_num, SectionEnd(k))
        /\ (headers # <<>>) =>
              ConcatContents(hier)
                  = LinesFromTo(headers[1].line_num, Len(parse_lines))

(***************************************************************************)
(* Claims on the metadata extractor (SpecMeta).                            *)
(***************************************************************************)
\* The first item of the line item i stands on.
RECURSIVE LineStart(_, _)
LineStart(items, i) ==
    IF AtLineStart(items, i) THEN i ELSE LineStart(items, i - 1)

\* The bold keys annotated on blockquote lines: a key on a line that starts
\* with '>', with a word as its value.
AnnotatedKeys ==
    {i \in 1..Len(meta_text) :
        /\ meta_text[i].kind = "key"
        /\ meta_text[LineStart(meta_text, i)].kind = "quote"
        /\ i < Len(meta_text)
        /\ meta_text[i + 1].kind = "val"}

\* C13: extract_from_content captures every bold-key annotation of a
\* blockquote line, the keys that follow a pipe included: the line
\* '> **Service:** checkout | **Severity:** SEV2' yields service and
\* service_name 'checkout' and severity 'SEV2'; service_name equals service
\* whenever service is captured, and severity is upper-cased.
C13_CapturesEveryKey ==
    (meta_pc = "done") =>
        /\ \A i \in AnnotatedKeys :
              <<Lower(meta_text[i].text)>> \in DOMAIN metadata
        /\ (meta_text = ExampleLine) =>
              /\ {<<"service">>, <<"service_name">>, <<"severity">>}
                     \subseteq DOMAIN metadata
              /\ metadata[<<"service">>] = <<"checkout">>
              /\ metadata[<<"service_name">>] = <<"checkout">>
              /\ metadata[<<"severity">>] = <<"SEV2">>
        /\ (<<"service">> \in DOMAIN metadata) =>
              /\ <<"service_name">> \in DOMAIN metadata
              /\ metadata[<<"service_name">>] = metadata[<<"service">>]
        /\ (<<"severity">> \in DOMAIN metadata) =>
              \A n \in 1..Len(metadata[<<"severity">>]) :
                  Upper(metadata[<<"severity">>][n]) = metadata[<<"severity">>][n]

(***************************************************************************)
(* Claims on ingestion (SpecIngest), continued.                            *)
(***************************************************************************)
\* The chunks handed to collection.add so far: <<position of the file,
\* index of the chunk>>.
ChunksWritten ==
    {<<k, i>> \in (1..Len(md_files)) \X (0..(MaxFileChunks - 1)) :
        k \in docs_chunked /\ i < md_files[k].nchunks}

\* C14: across one ingestion run no two chunks written to the index share a
\* storage id, whatever the directories of their documents: the id built
\* from the document stem and the chunk index is unique for every chunk;
\* within one document the chunk indices are 0-based and pairwise distinct.
C14_StorageIdsUnique ==
    /\ \A c, e \in ChunksWritten :
          (c # e) => (ChunkId(md_files[c[1]], c[2]) # ChunkId(md_files[e[1]], e[2]))
    /\ \A k \in 1..Len(md_files) :
          \A a, b \in 1..md_files[k].nchunks :
              /\ FileIds(md_files[k])[a][3] = a - 1
              /\ (a # b) => (FileIds(md_files[k])[a] # FileIds(md_files[k])[b])

\* C15: a document that fails does not abort the batch: whenever
\* index_directory is over, with a chunker it could build, the loop has gone
\* through every document found.
C15_FailureDoesNotAbort ==
    (ingest_pc \in {"done", "error"} /\ GetChunker(strategy) # "ValueError")
        => (file_i > Len(md_files))

RECURSIVE SumChunks(_)
SumChunks(files) ==
    IF files = <<>> THEN 0 ELSE files[1].nchunks + SumChunks(Tail(files))

\* A step of the loop at a document whose chunk list is empty.
AtEmptyDocument ==
    /\ ingest_pc = "files"
    /\ file_i <= Len(md_files)
    /\ md_files[file_i].readable
    /\ md_files[file_i].nchunks = 0

\* C20: a document whose chunk list is empty causes no write to the index
\* and adds zero to the total, and the loop goes on to the next document;
\* after the run the total reported is the sum of the chunk counts of all
\* documents and the number of entries added to the index.
C20_TotalIsEntriesAdded ==
    /\ [][AtEmptyDocument =>
            /\ index_ids' = index_ids
            /\ total_chunks' = total_chunks
            /\ file_i' = file_i + 1
            /\ ingest_pc' = "files"]_vars
    /\ []((ingest_pc = "done") =>
            /\ total_chunks = SumChunks(md_files)
            /\ total_chunks = Len(index_ids))

(***************************************************************************)
(* Claims on the layout-aware chunker (SpecLayout), continued.             *)
(***************************************************************************)
\* The merge of two chunks, as the merge pass emits it.
MergeOfTwo(m, current, next_chunk) ==
    /\ m.merged
    /\ m.content = current.content \o <<Blank>> \o next_chunk.content
    /\ m.section_title = current.section_title \o <<"+">> \o next_chunk.section_title

\* Where the sweep stands when it emits position p of out (0-based index
\* into chunks): two chunks are consumed by a merge, one otherwise.
RECURSIVE SweepPos(_, _)
SweepPos(out, p) ==
    IF p = 1 THEN 0
    ELSE SweepPos(out, p - 1) + (IF out[p - 1].merged THEN 2 ELSE 1)

\* C18: the merge pass is one left-to-right sweep over the chunks: it moves
\* on by two after a merge and by one otherwise; what it has emitted, a
\* merged chunk included, is never compared or merged again even if still
\* undersized; the chunk absorbed as 'next' is never examined itself; an
\* undersized chunk at the last position is emitted unmerged.  So every
\* emitted chunk is one original chunk or the merge of exactly two.
C18_SingleSweep ==
    /\ [][(layout_pc = "merge" /\ merge_i < Len(chunks)) =>
            LET current == chunks[merge_i + 1]
            IN  /\ Len(merged') = Len(merged) + 1
                /\ SubSeq(merged', 1, Len(merged)) = merged
                /\ ~current.merged
                /\ IF current.tokens < LAYOUT_AWARE_MIN_TOKENS
                        /\ merge_i + 2 <= Len(chunks)
                   THEN /\ merge_i' = merge_i + 2
                        /\ MergeOfTwo(merged'[Len(merged')], current,
                                      chunks[merge_i + 2])
                   ELSE /\ merge_i' = merge_i + 1
                        /\ merged'[Len(merged')] = current]_vars
    /\ []((layout_pc = "done" /\ merge_small) =>
            /\ \A p \in 1..Len(result) :
                  LET i == SweepPos(result, p)
                  IN  IF result[p].merged
                      THEN /\ i + 2 <= Len(chunks)
                           /\ MergeOfTwo(result[p], chunks[i + 1], chunks[i + 2])
                      ELSE /\ i + 1 <= Len(chunks)
                           /\ result[p] = chunks[i + 1]
            /\ SweepPos(result, Len(result) + 1) = Len(chunks))

\* A returned list where a merged chunk is still undersized and has a chunk
\* after it, and the last chunk is undersized and unmerged.
C18_Witness ==
    /\ layout_pc = "done"
    /\ merge_small
    /\ Len(result) >= 2
    /\ \E p \in 1..(Len(result) - 1) :
          /\ result[p].merged
          /\ result[p].tokens < LAYOUT_AWARE_MIN_TOKENS
    /\ ~result[Len(result)].merged
    /\ result[Len(result)].tokens < LAYOUT_AWARE_MIN_TOKENS

\* The lines of the document that are level-2 headings.
H2Lines == {i \in 1..Len(doc) : doc[i].hashes = 2 /\ doc[i].title # ""}

\* The lines at which a section starts: the first line, and every level-2
\* heading.
SectionStarts == {1} \cup H2Lines

\* The r-th smallest element of a set of numbers.
Nth(S, r) == CHOOSE i \in S : Cardinality({j \in S : j <= i}) = r

\* The lines of doc from the r-th section start up to the next one.
SectionLines(r) ==
    LET a == Nth(SectionStarts, r)
        b == IF r < Cardinality(SectionStarts)
             THEN Nth(SectionStarts, r + 1) - 1
             ELSE Len(doc)
    IN  SubSeq(doc, a, b)

\* C19: the level-2 split gives the text before the first level-2 heading
\* its own section titled "Introduction" and starts a new section at every
\* level-2 heading line, and at no heading of another level; a document
\* without level-2 heading yields exactly one section, titled
\* "Introduction", that holds the whole document.
C19_SplitAtH2Only ==
    (layout_pc \notin {"idle", "start"}) =>
        /\ Len(sections) = Cardinality(SectionStarts)
        /\ \A r \in 1..Len(sections) :
              /\ sections[r].content = JoinStrip(SectionLines(r))
              /\ sections[r].title =
                    IF Nth(SectionStarts, r) \in H2Lines
                    THEN <<doc[Nth(SectionStarts, r)].title>>
                    ELSE <<"Introduction">>
        /\ (H2Lines = {}) =>
              /\ Len(sections) = 1
              /\ sections[1].title = <<"Introduction">>
              /\ sections[1].content = JoinStrip(doc)

\* A split of a document with a level-1 heading before its first level-2
\* heading and a level-3 heading after it.
C19_Witness ==
    /\ layout_pc = "sections"
    /\ Len(sections) = 3
    /\ sections[1].title = <<"Introduction">>
    /\ \E i \in 1..Len(doc) : doc[i].hashes = 1
    /\ \E i \in 1..Len(doc) : doc[i].hashes = 3

(***************************************************************************)
(* Claims on the extractive abstract (SpecExtract).                        *)
(***************************************************************************)
\* T: the text of the first N tokens of the content.
FirstTokensText ==
    SubSeq(ex_content, 1, Min(Len(ex_content), abstract_max_tokens))

\* The 0-based positions in T of the sentence terminators of all three
\* kinds ('. ', '! ', '? ').
TerminatorPositions ==
    {p \in 0..(Len(FirstTokensText) - 2) :
        /\ FirstTokensText[p + 1] \in {".", "!", "?"}
        /\ FirstTokensText[p + 2] = " "}

\* C17: with T the text of the first N tokens and p the position of the
\* sentence terminator nearest the end of T, of whichever kind, the abstract
\* is T cut just after that terminator when p is past 70% of T's length, and
\* T unchanged otherwise; the abstract is always a prefix of T.
C17_CutAtNearestTerminator ==
    (ex_pc = "done") =>
        LET T == FirstTokensText
            p == IF TerminatorPositions = {} THEN -1
                 ELSE SetMax(TerminatorPositions)
        IN  /\ abstract = IF 10 * p > 7 * Len(T) THEN SubSeq(T, 1, p + 1) ELSE T
            /\ Len(abstract) <= Len(T)
            /\ abstract = SubSeq(T, 1, Len(abstract))

(***************************************************************************)
(* Claims on the abstract-first chunker (SpecAbstractFirst).               *)
(***************************************************************************)
\* short is the text long cut after some token: the same lines, the last of
\* them possibly shortened, down to the empty line when the cut falls right
\* after a line break.
IsTokenPrefix(short, long) ==
    /\ Len(short) <= Len(long)
    /\ \A k \in 1..Len(short) :
          IF k < Len(short) THEN short[k] = long[k]
          ELSE \/ short[k] = Blank
               \/ /\ short[k].hashes = long[k].hashes
                  /\ short[k].title = long[k].title
                  /\ short[k].tok <= long[k].tok

\* C16: AbstractFirstChunker.chunk returns the chunks LayoutAwareChunker.chunk
\* returns on the same input, in number, order, content, section_title,
\* heading_level, token count and chunk_index, each with two keys added: an
\* abstract, which is the extractive abstract of its content (a prefix of
\* it, of at most abstract_max_tokens tokens) whatever the generation method
\* configured, and the abstract's exact token count.
C16_SameChunksPlusAbstract ==
    (af_pc = "done") =>
        /\ Len(af_chunks) = Len(result)
        /\ \A p \in 1..Len(af_chunks) :
              /\ DOMAIN af_chunks[p]
                     = (DOMAIN result[p]) \cup {"abstract", "abstract_tokens"}
              /\ \A key \in DOMAIN result[p] : af_chunks[p][key] = result[p][key]
              /\ IsTokenPrefix(af_chunks[p].abstract, result[p].content)
              /\ af_chunks[p].abstract_tokens = CountTokens(af_chunks[p].abstract)
              /\ af_chunks[p].abstract_tokens <= abstract_max_tokens
              /\ af_chunks[p].abstract
                     = ExtractiveAbstract(result[p].content, abstract_max_tokens)

\* Two chunks returned under a method other than "extractive", one of them
\* with an abstract shorter than its content.
C16_Witness ==
    /\ af_pc = "done"
    /\ af_method # "extractive"
    /\ Len(af_chunks) >= 2
    /\ \E p \in 1..Len(af_chunks) :
          af_chunks[p].abstract_tokens < af_chunks[p].tokens

(***************************************************************************)
(* Claims on the query engine (SpecQuery), continued.                      *)
(***************************************************************************)
\* The candidates the loop has gone through once query() has returned
\* (1-based positions in results).
Examined == 1..Min(res_i + 1, Len(results))

\* C21: query applies the caller's min_score and top_k whenever the caller
\* supplies them, and the configured defaults only when they are omitted; a
\* caller-supplied min_score of 0.0 disables the score filter, so every
\* candidate gone through with a non-negative distance is returned.
C21_CallerValuesApplied ==
    (query_pc \in {"loop", "done", "error"}) =>
        /\ top_k = IF arg_top_k = NoneArg THEN DEFAULT_TOP_K ELSE arg_top_k[1]
        /\ min_score = IF arg_min_score = NoneArg THEN MIN_SIMILARITY_SCORE
                       ELSE arg_min_score[1]
        /\ (query_pc = "done" /\ arg_min_score = Some(FZero)) =>
              \A i \in Examined :
                  (results[i].distance.n >= 0) =>
                      \E r \in 1..Len(formatted_results) :
                          formatted_results[r].id = results[i].id

(***************************************************************************)
(* Claims on the layout-aware chunker (SpecLayout), concluded.             *)
(***************************************************************************)
\* out holds the contents of the chunks ins, each once and in order: an
\* unmerged chunk of out is the next chunk of ins unchanged, a merged one
\* holds the contents of the next two, a blank line between them.
RECURSIVE Conserves(_, _)
Conserves(out, ins) ==
    IF out = <<>> THEN ins = <<>>
    ELSE IF ~Head(out).merged
         THEN /\ ins # <<>>
              /\ Head(out) = Head(ins)
              /\ Conserves(Tail(out), Tail(ins))
    ELSE /\ Len(ins) >= 2
         /\ Head(out).content = ins[1].content \o <<Blank>> \o ins[2].content
         /\ Conserves(Tail(out), Tail(Tail(ins)))

\* The number of merges a list of emitted chunks holds.
Merges(out) == Cardinality({p \in 1..Len(out) : out[p].merged})

\* C22: the merge pass conserves content: all along the pass the chunks
\* emitted hold the contents of the chunks gone through, each in exactly one
\* emitted chunk and in the original order, alone and unchanged or as one
\* half of a merged chunk; the list returned covers the whole input and
\* has the input's length minus the number of merges.
C22_MergeConservesContent ==
    /\ (layout_pc = "merge") =>
          /\ merge_i <= Len(chunks)
          /\ Conserves(merged, SubSeq(chunks, 1, merge_i))
          /\ Len(merged) = merge_i - Merges(merged)
    /\ (layout_pc = "done" /\ merge_small) =>
          /\ Conserves(result, chunks)
          /\ Len(result) = Len(chunks) - Merges(result)

\* A returned list with a merged chunk and, before it, a chunk left alone.
C22_Witness ==
    /\ layout_pc = "done"
    /\ merge_small
    /\ Len(result) >= 2
    /\ ~result[1].merged
    /\ result[2].merged
    /\ Len(chunks) = Len(result) + 1


=============================================================================
